---------------------------- MODULE Spec2Model ----------------------------
(***************************************************************************)
(* Model of the two command-line utilities of the repository:              *)
(*   scripts/fix_quotes.py             (quote fixer)                       *)
(*   scripts/generate_repo_markdown.py (repository markdown generator)     *)
(*                                                                         *)
(* Text is a sequence of characters; a character is a one-character string *)
(* ("x", "/", "*") or the name of a code point ("quot" for the ASCII       *)
(* double quote, "grave", "apos", "LF", "u201C").                          *)
(* Bytes are integers 0..255.                                              *)
(***************************************************************************)
EXTENDS Integers, Sequences, FiniteSets, TLC

VARIABLES
    \* ---- fix_quotes.py: normalize_text applied to one text ----
    n_pc, n_text, n_once, n_twice,
    \* ---- fix_quotes.py: main / process_file over the .tex files ----
    fs, bak, orig, todo, cur, pc, text, new, result, modified, errors, summary,
    \* ---- generate_repo_markdown.py: detect_binary on one buffer ----
    b_pc, data, is_binary,
    \* ---- generate_repo_markdown.py: the two ignore filters on one path ----
    i_pc, i_rel, i_patterns, i_match, i_skip,
    \* ---- generate_repo_markdown.py: main, run after run on one disk ----
    m_pc, run, disk, output_path, gitignore, files, markdown

normVars == <<n_pc, n_text, n_once, n_twice>>
fixVars  == <<fs, bak, orig, todo, cur, pc, text, new, result, modified, errors, summary>>
binVars  == <<b_pc, data, is_binary>>
ignVars  == <<i_pc, i_rel, i_patterns, i_match, i_skip>>
mdVars   == <<m_pc, run, disk, output_path, gitignore, files, markdown>>
vars     == <<normVars, fixVars, binVars, ignVars, mdVars>>

\* what the actions of one part leave alone
notNorm == <<fixVars, binVars, ignVars, mdVars>>
notFix  == <<normVars, binVars, ignVars, mdVars>>
notBin  == <<normVars, fixVars, ignVars, mdVars>>
notIgn  == <<normVars, fixVars, binVars, mdVars>>
notMd   == <<normVars, fixVars, binVars, ignVars>>

(***************************************************************************)
(* Bounds of the model.                                                    *)
(***************************************************************************)
MaxTextLen == 4
MaxFileLen == 2
MaxRun == 7
MaxPatterns == 2
MaxRaw == 3
MaxRuns == 2

(***************************************************************************)
(* Generic helpers on sequences.                                           *)
(***************************************************************************)
SeqsUpTo(S, n) == UNION {[1..k -> S] : k \in 0..n}

Range(s) == {s[i] : i \in DOMAIN s}

(***************************************************************************)
(* fix_quotes.py                                                           *)
(***************************************************************************)
DQ == "quot"
GRAVE == "grave"
APOS == "apos"
LF == "LF"

\* REPLACEMENTS[0]: [“”„‟] -> '"'
SmartDouble == {"u201C", "u201D", "u201E", "u201F"}
\* REPLACEMENTS[1]: [‘’‚‛] -> APOS
SmartSingle == {"u2018", "u2019", "u201A", "u201B"}

\* for pat, repl in REPLACEMENTS: text = pat.sub(repl, text)
REPLACEMENTS(t) ==
    [i \in DOMAIN t |-> IF t[i] \in SmartDouble THEN DQ
                        ELSE IF t[i] \in SmartSingle THEN APOS
                        ELSE t[i]]

\* index of the first '"' of t at or after position i, 0 when there is none
FirstDQ(t, i) ==
    LET hits == {j \in i..Len(t) : t[j] = DQ}
    IN  IF hits = {} THEN 0 ELSE CHOOSE j \in hits : \A k \in hits : j <= k

\* DOUBLE_QUOTE_PATTERN.sub(repl, text): leftmost non-overlapping matches of
\* "(.*?)" with DOTALL, each rewritten to `` + inner + ''
RECURSIVE DOUBLE_QUOTE_PATTERN_sub(_)
DOUBLE_QUOTE_PATTERN_sub(t) ==
    LET p == FirstDQ(t, 1)
        q == IF p = 0 THEN 0 ELSE FirstDQ(t, p + 1)
    IN  IF p = 0 \/ q = 0 THEN t
        ELSE SubSeq(t, 1, p - 1) \o <<GRAVE, GRAVE>> \o SubSeq(t, p + 1, q - 1)
             \o <<APOS, APOS>> \o DOUBLE_QUOTE_PATTERN_sub(SubSeq(t, q + 1, Len(t)))

\* faulty variant: the span conversion runs before the smart quotes are normalized
normalize_text_spans_first(t) == REPLACEMENTS(DOUBLE_QUOTE_PATTERN_sub(t))

normalize_text(t) == DOUBLE_QUOTE_PATTERN_sub(REPLACEMENTS(t))

(***************************************************************************)
(* SpecNormalize: normalize_text applied once and then again to its own    *)
(* result, for every text over TextChars of length <= MaxTextLen.          *)
(***************************************************************************)
TextChars == {DQ, "u201C", "u201D", "u2019", "x", LF}

NormIdle == n_pc = "idle" /\ n_text = <<>> /\ n_once = <<>> /\ n_twice = <<>>

NormInit ==
    /\ n_pc = "start"
    /\ n_text \in SeqsUpTo(TextChars, MaxTextLen)
    /\ n_once = <<>>
    /\ n_twice = <<>>

NormalizeOnce ==
    /\ n_pc = "start"
    /\ n_once' = normalize_text(n_text)
    /\ n_pc' = "once"
    /\ UNCHANGED <<n_text, n_twice, notNorm>>

NormalizeTwice ==
    /\ n_pc = "once"
    /\ n_twice' = normalize_text(n_once)
    /\ n_pc' = "twice"
    /\ UNCHANGED <<n_text, n_once, notNorm>>

(***************************************************************************)
(* SpecFix: main() of fix_quotes.py over the .tex files under the root.    *)
(* A read or a write may fail (OSError); a failing write_text either       *)
(* fails at open (target untouched) or after the truncating open (target   *)
(* left empty).                                                            *)
(***************************************************************************)
TexFiles == {"a.tex", "b.tex"}
FileChars == {DQ, "u201C", "x"}
NoFile == "<absent>"

FixIdle ==
    /\ fs = <<>> /\ bak = <<>> /\ orig = <<>> /\ todo = {} /\ cur = "" /\ pc = "idle"
    /\ text = <<>> /\ new = <<>> /\ result = <<>> /\ modified = <<>> /\ errors = <<>>
    /\ summary = ""

FixInit ==
    /\ fs \in [TexFiles -> SeqsUpTo(FileChars, MaxFileLen)]
    /\ orig = fs
    /\ bak = [f \in TexFiles |-> NoFile]
    /\ todo = TexFiles
    /\ cur = ""
    /\ pc = "loop"
    /\ text = <<>>
    /\ new = <<>>
    /\ result = [f \in TexFiles |-> "none"]
    /\ modified = <<>>
    /\ errors = <<>>
    /\ summary = ""

\* for f in find_tex_files(root): rglob yields the files in directory order
NextFile ==
    /\ pc = "loop"
    /\ \E f \in todo :
        /\ cur' = f
        /\ todo' = todo \ {f}
    /\ pc' = "read"
    /\ UNCHANGED <<fs, bak, orig, text, new, result, modified, errors, summary, notFix>>

\* process_file: text = path.read_text(); new = normalize_text(text);
\* if new != text: ... ; return False
ReadAndCompare ==
    /\ pc = "read"
    /\ \/ /\ text' = fs[cur]
          /\ new' = normalize_text(fs[cur])
          /\ IF normalize_text(fs[cur]) # fs[cur]
             THEN pc' = "write_bak" /\ UNCHANGED result
             ELSE pc' = "loop" /\ result' = [result EXCEPT ![cur] = "False"]
       \/ /\ pc' = "raised"
          /\ result' = [result EXCEPT ![cur] = "raised"]
          /\ UNCHANGED <<text, new>>
    /\ UNCHANGED <<fs, bak, orig, todo, cur, modified, errors, summary, notFix>>

\* faulty variant: the backup receives the normalized text
WriteBakNew ==
    /\ pc = "write_bak"
    /\ \/ /\ bak' = [bak EXCEPT ![cur] = new]
          /\ pc' = "write_file"
          /\ UNCHANGED result
       \/ /\ bak' \in {bak, [bak EXCEPT ![cur] = <<>>]}
          /\ pc' = "raised"
          /\ result' = [result EXCEPT ![cur] = "raised"]
    /\ UNCHANGED <<fs, orig, todo, cur, text, new, modified, errors, summary, notFix>>

\* bak = path.with_suffix(path.suffix + '.bak'); bak.write_text(text)
WriteBak ==
    /\ pc = "write_bak"
    /\ \/ /\ bak' = [bak EXCEPT ![cur] = text]
          /\ pc' = "write_file"
          /\ UNCHANGED result
       \/ /\ bak' \in {bak, [bak EXCEPT ![cur] = <<>>]}
          /\ pc' = "raised"
          /\ result' = [result EXCEPT ![cur] = "raised"]
    /\ UNCHANGED <<fs, orig, todo, cur, text, new, modified, errors, summary, notFix>>

\* path.write_text(new); return True; main: modified.append(...)
WriteFile ==
    /\ pc = "write_file"
    /\ \/ /\ fs' = [fs EXCEPT ![cur] = new]
          /\ result' = [result EXCEPT ![cur] = "True"]
          /\ modified' = Append(modified, cur)
          /\ pc' = "loop"
       \/ /\ fs' \in {fs, [fs EXCEPT ![cur] = <<>>]}
          /\ result' = [result EXCEPT ![cur] = "raised"]
          /\ pc' = "raised"
          /\ UNCHANGED modified
    /\ UNCHANGED <<bak, orig, todo, cur, text, new, errors, summary, notFix>>

\* faulty variant: no handler around process_file, the exception leaves main
CatchNothing ==
    /\ pc = "raised"
    /\ pc' = "aborted"
    /\ UNCHANGED <<fs, bak, orig, todo, cur, text, new, result, modified, errors, summary, notFix>>

\* except Exception as e: print(f"Error processing {f}: {e}")
Catch ==
    /\ pc = "raised"
    /\ errors' = Append(errors, cur)
    /\ pc' = "loop"
    /\ UNCHANGED <<fs, bak, orig, todo, cur, text, new, result, modified, summary, notFix>>

\* if modified: print('Modified files:') ... else: print('No changes made.')
PrintSummary ==
    /\ pc = "loop"
    /\ todo = {}
    /\ summary' = IF modified # <<>> THEN "Modified files:" ELSE "No changes made."
    /\ pc' = "done"
    /\ UNCHANGED <<fs, bak, orig, todo, cur, text, new, result, modified, errors, notFix>>

FixNext ==
    \/ NextFile
    \/ ReadAndCompare
    \/ WriteBak
    \/ WriteFile
    \/ Catch
    \/ PrintSummary

(***************************************************************************)
(* generate_repo_markdown.py: detect_binary                                *)
(***************************************************************************)
\* printable = {7, 8, 9, 10, 12, 13, 27}; printable.update(range(0x20, 0x7F))
printable == {7, 8, 9, 10, 12, 13, 27} \cup (32..126)

\* sum(1 for byte in data if byte in printable)
RECURSIVE printable_count(_)
printable_count(d) ==
    IF d = <<>> THEN 0
    ELSE (IF Head(d) \in printable THEN 1 ELSE 0) + printable_count(Tail(d))

\* faulty variant: a buffer that is exactly 70% printable counts as binary
detect_binary_at_most(d) ==
    IF d = <<>> THEN FALSE
    ELSE IF \E i \in DOMAIN d : d[i] = 0 THEN TRUE
    ELSE printable_count(d) * 10 <= 7 * Len(d)

\* ratio = printable_count / len(data); return ratio < 0.7
\* (the quotient of two integers below 2^53 is below the double 0.7 exactly
\* when 10 * printable_count < 7 * len)
detect_binary(d) ==
    IF d = <<>> THEN FALSE
    ELSE IF \E i \in DOMAIN d : d[i] = 0 THEN TRUE
    ELSE printable_count(d) * 10 < 7 * Len(d)

(***************************************************************************)
(* SpecBinary: detect_binary on the buffers made of a run of one sample    *)
(* byte followed by a run of another, each run of length <= MaxRun.        *)
(***************************************************************************)
SampleBytes == {0, 6, 7, 11, 13, 27, 31, 32, 126, 127, 255}

Repeat(b, n) == [i \in 1..n |-> b]

BinIdle == b_pc = "idle" /\ data = <<>> /\ is_binary = FALSE

BinInit ==
    /\ b_pc = "start"
    /\ data \in {Repeat(b1, n1) \o Repeat(b2, n2) :
                    b1 \in SampleBytes, n1 \in 0..MaxRun,
                    b2 \in SampleBytes, n2 \in 0..MaxRun}
    /\ is_binary = FALSE

DetectBinary ==
    /\ b_pc = "start"
    /\ is_binary' = detect_binary(data)
    /\ b_pc' = "done"
    /\ UNCHANGED <<data, notBin>>

(***************************************************************************)
(* generate_repo_markdown.py: ignore patterns                              *)
(***************************************************************************)
\* str.startswith
startswith(s, prefix) ==
    Len(prefix) <= Len(s) /\ SubSeq(s, 1, Len(prefix)) = prefix

\* str.endswith("/")
endswith_slash(s) == s # <<>> /\ s[Len(s)] = "/"

\* str.rstrip("/")
RECURSIVE rstrip_slash(_)
rstrip_slash(s) ==
    IF endswith_slash(s) THEN rstrip_slash(SubSeq(s, 1, Len(s) - 1)) ELSE s

\* Path.name of a relative posix path: what follows its last "/"
RECURSIVE name(_)
name(rel) ==
    IF \E i \in DOMAIN rel : rel[i] = "/" THEN name(Tail(rel)) ELSE rel

\* fnmatch.fnmatch on a POSIX system, for patterns over "*", "?" and literal
\* characters: "*" matches any run of characters ("/" included), "?" any
\* one character, the whole string must match
RECURSIVE fnmatch(_, _)
fnmatch(s, pat) ==
    IF pat = <<>> THEN s = <<>>
    ELSE IF Head(pat) = "*"
         THEN fnmatch(s, Tail(pat)) \/ (s # <<>> /\ fnmatch(Tail(s), pat))
    ELSE IF Head(pat) = "?"
         THEN s # <<>> /\ fnmatch(Tail(s), Tail(pat))
    ELSE s # <<>> /\ Head(s) = Head(pat) /\ fnmatch(Tail(s), Tail(pat))

\* "*" in pat or "?" in pat
has_wildcard(pat) == \E i \in DOMAIN pat : pat[i] \in {"*", "?"}

\* faulty variant: the directory rule is a bare prefix test, as in the walk
path_matches_gitignore_prefix(rel, patterns) ==
    \E i \in DOMAIN patterns :
        LET pat == patterns[i]
        IN  IF endswith_slash(pat) THEN startswith(rel, rstrip_slash(pat))
            ELSE IF has_wildcard(pat) THEN fnmatch(rel, pat) \/ fnmatch(name(rel), pat)
            ELSE rel = pat \/ name(rel) = pat

\* path_matches_gitignore(path, root, patterns), rel = path.relative_to(root)
RECURSIVE path_matches_gitignore(_, _)
path_matches_gitignore(rel, patterns) ==
    IF patterns = <<>> THEN FALSE
    ELSE LET pat == Head(patterns)
             p   == rstrip_slash(pat)
         IN  IF endswith_slash(pat)
             THEN IF rel = p \/ startswith(rel, p \o <<"/">>)
                  THEN TRUE
                  ELSE path_matches_gitignore(rel, Tail(patterns))
             ELSE IF has_wildcard(pat)
             THEN IF fnmatch(rel, pat) \/ fnmatch(name(rel), pat)
                  THEN TRUE
                  ELSE path_matches_gitignore(rel, Tail(patterns))
             ELSE IF rel = pat \/ name(rel) = pat
                  THEN TRUE
                  ELSE path_matches_gitignore(rel, Tail(patterns))

\* gather_files_by_walk: the loop that sets skip for one file
RECURSIVE walk_skip(_, _)
walk_skip(rel, patterns) ==
    IF patterns = <<>> THEN FALSE
    ELSE LET pat == Head(patterns)
         IN  IF endswith_slash(pat)
             THEN IF startswith(rel, rstrip_slash(pat))
                  THEN TRUE
                  ELSE walk_skip(rel, Tail(patterns))
             ELSE IF fnmatch(rel, pat) \/ fnmatch(name(rel), pat)
                  THEN TRUE
                  ELSE walk_skip(rel, Tail(patterns))

(***************************************************************************)
(* SpecIgnore: both filters applied to one root-relative path of a regular *)
(* file and one pattern list of length <= MaxPatterns.                     *)
(***************************************************************************)
BUILD  == <<"b", "u", "i", "l", "d">>
BUILDX == <<"b", "u", "i", "l", "d", "x">>
OUT_O  == <<"o", "u", "t", ".", "o">>
SRC    == <<"s", "r", "c">>
MAIN_C == <<"m", "a", "i", "n", ".", "c">>
SLASH  == <<"/">>

IgnorePaths ==
    { BUILD \o SLASH \o OUT_O,
      BUILDX \o SLASH \o OUT_O,
      BUILD,
      OUT_O,
      SRC \o SLASH \o MAIN_C,
      SRC \o SLASH \o BUILD \o SLASH \o OUT_O }

IgnorePatterns ==
    { BUILD \o SLASH,
      <<"b", "u", "*", "/">>,
      <<"*", ".", "o">>,
      <<"o", "?", "t", ".", "*">>,
      <<"s", "r", "c", "/", "*", ".", "c">>,
      OUT_O,
      BUILD,
      BUILDX \o SLASH \o OUT_O,
      SRC }

IgnIdle ==
    i_pc = "idle" /\ i_rel = <<>> /\ i_patterns = <<>> /\ i_match = FALSE /\ i_skip = FALSE

IgnInit ==
    /\ i_pc = "start"
    /\ i_rel \in IgnorePaths
    /\ i_patterns \in SeqsUpTo(IgnorePatterns, MaxPatterns)
    /\ i_match = FALSE
    /\ i_skip = FALSE

\* primary discovery: if path_matches_gitignore(full, root, patterns): continue
MatchGitignore ==
    /\ i_pc = "start"
    /\ i_match' = path_matches_gitignore(i_rel, i_patterns)
    /\ i_pc' = "matched"
    /\ UNCHANGED <<i_rel, i_patterns, i_skip, notIgn>>

\* fallback discovery: skip as computed by gather_files_by_walk
WalkFilter ==
    /\ i_pc = "matched"
    /\ i_skip' = walk_skip(i_rel, i_patterns)
    /\ i_pc' = "done"
    /\ UNCHANGED <<i_rel, i_patterns, i_match, notIgn>>

(***************************************************************************)
(* generate_repo_markdown.py: ordering of names and paths                  *)
(***************************************************************************)
\* the characters of the model's paths in code point order
CharsInOrder ==
    <<" ", "*", "-", ".", "/", "1", "2", "?", "A", "D", "E", "M", "R", "_",
      "a", "b", "c", "d", "e", "f", "g", "h", "i", "k", "l", "m", "n", "o",
      "p", "r", "s", "t", "u", "v", "w", "x", "y">>

ord(c) == CHOOSE i \in DOMAIN CharsInOrder : CharsInOrder[i] = c

\* str.__lt__
RECURSIVE str_less(_, _)
str_less(a, b) ==
    IF b = <<>> THEN FALSE
    ELSE IF a = <<>> THEN TRUE
    ELSE IF Head(a) = Head(b) THEN str_less(Tail(a), Tail(b))
    ELSE ord(Head(a)) < ord(Head(b))

\* str.split(sep) for a one-character separator
RECURSIVE split(_, _)
split(s, sep) ==
    IF \E i \in DOMAIN s : s[i] = sep
    THEN LET k == CHOOSE i \in DOMAIN s : s[i] = sep /\ \A j \in 1..(i - 1) : s[j] # sep
         IN  <<SubSeq(s, 1, k - 1)>> \o split(SubSeq(s, k + 1, Len(s)), sep)
    ELSE <<s>>

\* path.relative_to(root).parts
parts(rel) == split(rel, "/")

\* PurePath.__lt__: the tuples of parts compared
RECURSIVE parts_less(_, _)
parts_less(a, b) ==
    IF b = <<>> THEN FALSE
    ELSE IF a = <<>> THEN TRUE
    ELSE IF Head(a) = Head(b) THEN parts_less(Tail(a), Tail(b))
    ELSE str_less(Head(a), Head(b))

path_less(p, q) == parts_less(parts(p), parts(q))

\* sorted() of a list of strings
RECURSIVE sorted_names(_)
sorted_names(s) ==
    IF s = <<>> THEN <<>>
    ELSE LET k    == CHOOSE i \in DOMAIN s : \A j \in DOMAIN s : ~str_less(s[j], s[i])
             rest == [i \in 1..(Len(s) - 1) |-> IF i < k THEN s[i] ELSE s[i + 1]]
         IN  <<s[k]>> \o sorted_names(rest)

\* sorted() of a list of paths
RECURSIVE sorted_paths(_)
sorted_paths(s) ==
    IF s = <<>> THEN <<>>
    ELSE LET k    == CHOOSE i \in DOMAIN s : \A j \in DOMAIN s : ~path_less(s[j], s[i])
             rest == [i \in 1..(Len(s) - 1) |-> IF i < k THEN s[i] ELSE s[i + 1]]
         IN  <<s[k]>> \o sorted_paths(rest)

\* a set of names as the list sorted() makes of it
RECURSIVE sorted_keys(_)
sorted_keys(S) ==
    IF S = {} THEN <<>>
    ELSE LET m == CHOOSE x \in S : \A y \in S : ~str_less(y, x)
         IN  <<m>> \o sorted_keys(S \ {m})

(***************************************************************************)
(* generate_repo_markdown.py: build_tree and render_tree                   *)
(* A tree is the nested dict of the source: a function from directory      *)
(* names to trees, with the key "__files__" holding the list of file names.*)
(***************************************************************************)
FILES_KEY == <<"_", "_", "f", "i", "l", "e", "s", "_", "_">>

EmptyTree == [k \in {} |-> <<>>]

\* the dict with d[k] = v
dict_set(d, k, v) == [x \in (DOMAIN d) \cup {k} |-> IF x = k THEN v ELSE d[x]]

\* dict.get(k, default)
dict_get(d, k, default) == IF k \in DOMAIN d THEN d[k] ELSE default

\* the body of build_tree's loop for one path
RECURSIVE tree_insert(_, _)
tree_insert(tree, ps) ==
    IF Len(ps) = 1
    THEN dict_set(tree, FILES_KEY, Append(dict_get(tree, FILES_KEY, <<>>), ps[1]))
    ELSE dict_set(tree, Head(ps),
                  tree_insert(dict_get(tree, Head(ps), EmptyTree), Tail(ps)))

RECURSIVE build_tree_from(_, _)
build_tree_from(tree, paths) ==
    IF paths = <<>> THEN tree
    ELSE build_tree_from(tree_insert(tree, parts(Head(paths))), Tail(paths))

build_tree(paths) == build_tree_from(EmptyTree, paths)

\* "└──", "├──", and the two continuation paddings
LAST_CONNECTOR == <<"u2514", "u2500", "u2500">>
MID_CONNECTOR  == <<"u251C", "u2500", "u2500">>
BLANK_PAD      == <<" ", " ", " ", " ">>
BAR_PAD        == <<"u2502", " ", " ", " ">>

\* faulty variant: the file names are listed in insertion order
tree_entries_unsorted(tree) ==
    [i \in 1..Cardinality(DOMAIN tree \ {FILES_KEY}) |->
        [name |-> sorted_keys(DOMAIN tree \ {FILES_KEY})[i], is_dir |-> TRUE]]
    \o [i \in DOMAIN dict_get(tree, FILES_KEY, <<>>) |->
        [name |-> dict_get(tree, FILES_KEY, <<>>)[i], is_dir |-> FALSE]]

\* render_tree: entries = sorted directories, then sorted file names
tree_entries(tree) ==
    LET directories == sorted_keys(DOMAIN tree \ {FILES_KEY})
        filenames   == sorted_names(dict_get(tree, FILES_KEY, <<>>))
    IN  [i \in DOMAIN directories |-> [name |-> directories[i], is_dir |-> TRUE]]
        \o [i \in DOMAIN filenames |-> [name |-> filenames[i], is_dir |-> FALSE]]

RECURSIVE render_tree(_, _)
RECURSIVE render_entries(_, _, _, _)
\* render_tree: the loop over enumerate(entries), from index on
render_entries(tree, prefix, entries, index) ==
    IF index > Len(entries) THEN <<>>
    ELSE LET e         == entries[index]
             is_last   == index = Len(entries)
             connector == IF is_last THEN LAST_CONNECTOR ELSE MID_CONNECTOR
             line      == prefix \o connector \o <<" ">> \o e.name
             next_pref == prefix \o (IF is_last THEN BLANK_PAD ELSE BAR_PAD)
         IN  <<line>>
             \o (IF e.is_dir THEN render_tree(tree[e.name], next_pref) ELSE <<>>)
             \o render_entries(tree, prefix, entries, index + 1)

render_tree(tree, prefix) == render_entries(tree, prefix, tree_entries(tree), 1)

(***************************************************************************)
(* generate_repo_markdown.py: the files of the modelled repository         *)
(***************************************************************************)
A_TXT       == <<"a", ".", "t", "x", "t">>
B_X_TXT     == <<"b", "/", "x", ".", "t", "x", "t">>
V_README    == <<"v", "1", ".", "2", "/", "R", "E", "A", "D", "M", "E">>
STY_T_STY   == <<"s", "t", "y", "/", "t", ".", "s", "t", "y">>
CODEBASE_MD == <<"c", "o", "d", "e", "b", "a", "s", "e", ".", "m", "d">>
B_OUT_MD    == <<"b", "/", "o", "u", "t", ".", "m", "d">>
\* root / ".github" / "copilot-instructions.md"
CI ==
    <<".", "g", "i", "t", "h", "u", "b", "/", "c", "o", "p", "i", "l", "o", "t", "-",
      "i", "n", "s", "t", "r", "u", "c", "t", "i", "o", "n", "s", ".", "m", "d">>
\* root / "scripts" / "generate_repo_markdown.py"
GEN_SCRIPT ==
    <<"s", "c", "r", "i", "p", "t", "s", "/", "g", "e", "n", "e", "r", "a", "t", "e", "_",
      "r", "e", "p", "o", "_", "m", "a", "r", "k", "d", "o", "w", "n", ".", "p", "y">>

\* the files on disk before the first run (the instructions file may be there too)
BaseDisk ==
    {A_TXT, B_X_TXT, V_README, STY_T_STY, CODEBASE_MD, GEN_SCRIPT, BUILD \o SLASH \o OUT_O}

\* the paths git ls-files may report
GitPaths == BaseDisk \cup {CI, B_OUT_MD}

\* the bytes of each file
read_bytes(path) ==
    IF path = A_TXT THEN <<104, 105, 32, 10, 10>>
    ELSE IF path = B_X_TXT THEN <<0, 1, 2>>
    ELSE IF path = BUILD \o SLASH \o OUT_O THEN <<127, 128, 200, 65>>
    ELSE IF path = V_README THEN <<>>
    ELSE <<35, 32, 120, 10>>

(***************************************************************************)
(* generate_repo_markdown.py: discovery                                    *)
(***************************************************************************)
\* PurePath.suffix of a file name
suffix(nm) ==
    LET dots == {i \in DOMAIN nm : nm[i] = "."}
    IN  IF dots = {} THEN <<>>
        ELSE LET i == CHOOSE k \in dots : \A j \in dots : j <= k
             IN  IF i > 1 /\ i < Len(nm) THEN SubSeq(nm, i, Len(nm)) ELSE <<>>

\* gather_repo_files: the loop over raw_paths (git succeeded)
RECURSIVE gather_repo_files(_, _, _)
gather_repo_files(raw_paths, on_disk, pats) ==
    IF raw_paths = <<>> THEN <<>>
    ELSE LET p    == Head(raw_paths)
             rest == gather_repo_files(Tail(raw_paths), on_disk, pats)
         IN  IF p \notin on_disk THEN rest
             ELSE IF path_matches_gitignore(p, pats) THEN rest
             ELSE IF startswith(p, <<"s", "t", "y", "/">>)
                     \/ suffix(name(p)) = <<".", "s", "t", "y">> THEN rest
             ELSE <<p>> \o rest

\* gather_files_by_walk: the loop over root.rglob("*"), given in its order
RECURSIVE gather_files_by_walk(_, _)
gather_files_by_walk(walked, pats) ==
    IF walked = <<>> THEN <<>>
    ELSE LET rest == gather_files_by_walk(Tail(walked), pats)
         IN  IF walk_skip(Head(walked), pats) THEN rest ELSE <<Head(walked)>> \o rest

(***************************************************************************)
(* generate_repo_markdown.py: read_file_for_markdown and create_markdown   *)
(***************************************************************************)
\* str.rstrip() on decoded ASCII text
RECURSIVE rstrip(_)
rstrip(t) ==
    IF t # <<>> /\ t[Len(t)] \in {9, 10, 11, 12, 13, 28, 29, 30, 31, 32}
    THEN rstrip(SubSeq(t, 1, Len(t) - 1))
    ELSE t

read_file_for_markdown(path, on_disk) ==
    IF path \notin on_disk THEN [kind |-> "missing", size |-> 0, text |-> <<>>]
    ELSE IF detect_binary(read_bytes(path))
    THEN [kind |-> "binary", size |-> Len(read_bytes(path)), text |-> <<>>]
    ELSE [kind |-> "text", size |-> 0, text |-> rstrip(read_bytes(path)) \o <<10>>]

\* [f for f in s if f != x]
RECURSIVE without(_, _)
without(s, x) ==
    IF s = <<>> THEN <<>>
    ELSE (IF Head(s) = x THEN <<>> ELSE <<Head(s)>>) \o without(Tail(s), x)

\* faulty variant: the output file is not filtered out
files_for_tree_keep_output(fls, out, on_disk) ==
    without(IF CI \in on_disk /\ CI \notin Range(fls) THEN Append(fls, CI) ELSE fls,
            GEN_SCRIPT)

\* create_markdown: files_for_tree
files_for_tree(fls, out, on_disk) ==
    LET with_ci == IF CI \in on_disk /\ CI \notin Range(fls) THEN Append(fls, CI) ELSE fls
    IN  without(without(with_ci, GEN_SCRIPT), out)

\* create_markdown: files_for_content
files_for_content(for_tree) == without(for_tree, CI)

\* relative.split(".")[-1] if "." in relative else "text"
fence_lang(relative) ==
    IF \E i \in DOMAIN relative : relative[i] = "."
    THEN LET segs == split(relative, ".") IN segs[Len(segs)]
    ELSE <<"t", "e", "x", "t">>

\* create_markdown: the loop over sorted(files_for_content)
RECURSIVE content_sections(_, _)
content_sections(sorted_files, on_disk) ==
    IF sorted_files = <<>> THEN <<>>
    ELSE LET relative == Head(sorted_files)
             rest     == content_sections(Tail(sorted_files), on_disk)
         IN  IF relative = CI THEN rest
             ELSE <<[heading |-> relative,
                     fence   |-> fence_lang(relative),
                     body    |-> read_file_for_markdown(relative, on_disk)]>> \o rest

\* the document create_markdown returns, before the lines are joined:
\* the "## Estructura" block and the "## Contenido de archivos" subsections
create_markdown(fls, out, on_disk) ==
    LET for_tree == files_for_tree(fls, out, on_disk)
    IN  [tree_lines |-> <<<<".">>>> \o render_tree(build_tree(for_tree), <<>>),
         sections   |-> content_sections(sorted_paths(files_for_content(for_tree)), on_disk)]

(***************************************************************************)
(* SpecMarkdown: main() run MaxRuns times in a row on the same disk.       *)
(***************************************************************************)
NoDocument == [tree_lines |-> <<>>, sections |-> <<>>]

MdIdle ==
    /\ m_pc = "idle" /\ run = 0 /\ disk = {} /\ output_path = <<>> /\ gitignore = <<>>
    /\ files = <<>> /\ markdown = NoDocument

MdInit ==
    /\ m_pc = "start"
    /\ run = 1
    /\ disk \in {BaseDisk, BaseDisk \cup {CI}}
    /\ output_path \in {CODEBASE_MD, B_OUT_MD}
    /\ gitignore = <<BUILD \o SLASH>>
    /\ files = <<>>
    /\ markdown = NoDocument

\* files = gather_repo_files(root), git ls-files succeeded
DiscoverGit ==
    /\ m_pc = "start"
    /\ \E raw_paths \in SeqsUpTo(GitPaths, MaxRaw) :
           files' = gather_repo_files(raw_paths, disk, gitignore)
    /\ m_pc' = "discovered"
    /\ UNCHANGED <<run, disk, output_path, gitignore, markdown, notMd>>

\* files = gather_repo_files(root), git failed: the filesystem walk, which
\* meets the files in ascending or in descending path order
DiscoverWalk ==
    /\ m_pc = "start"
    /\ \E walked \in {sorted_paths(sorted_keys(disk)),
                      [i \in 1..Cardinality(disk) |->
                          sorted_paths(sorted_keys(disk))[Cardinality(disk) + 1 - i]]} :
           files' = gather_files_by_walk(walked, gitignore)
    /\ m_pc' = "discovered"
    /\ UNCHANGED <<run, disk, output_path, gitignore, markdown, notMd>>

\* markdown = create_markdown(root, files, output_path)
CreateMarkdown ==
    /\ m_pc = "discovered"
    /\ markdown' = create_markdown(files, output_path, disk)
    /\ m_pc' = "created"
    /\ UNCHANGED <<run, disk, output_path, gitignore, files, notMd>>

\* output_path.write_text(markdown); the process ends, the next run starts
WriteOutput ==
    /\ m_pc = "created"
    /\ disk' = disk \cup {output_path}
    /\ files' = <<>>
    /\ markdown' = NoDocument
    /\ IF run < MaxRuns
       THEN m_pc' = "start" /\ run' = run + 1
       ELSE m_pc' = "done" /\ UNCHANGED run
    /\ UNCHANGED <<output_path, gitignore, notMd>>

(***************************************************************************)
(* Specifications                                                          *)
(***************************************************************************)
InitNormalize == NormInit /\ FixIdle /\ BinIdle /\ IgnIdle /\ MdIdle

NextNormalize ==
    \/ NormalizeOnce
    \/ NormalizeTwice

SpecNormalize == InitNormalize /\ [][NextNormalize]_vars

InitFix == FixInit /\ NormIdle /\ BinIdle /\ IgnIdle /\ MdIdle

SpecFix == InitFix /\ [][FixNext]_vars

InitBinary == BinInit /\ NormIdle /\ FixIdle /\ IgnIdle /\ MdIdle

NextBinary == DetectBinary

SpecBinary == InitBinary /\ [][NextBinary]_vars

InitIgnore == IgnInit /\ NormIdle /\ FixIdle /\ BinIdle /\ MdIdle

NextIgnore ==
    \/ MatchGitignore
    \/ WalkFilter

SpecIgnore == InitIgnore /\ [][NextIgnore]_vars

InitMarkdown == MdInit /\ NormIdle /\ FixIdle /\ BinIdle /\ IgnIdle

NextMarkdown ==
    \/ DiscoverGit
    \/ DiscoverWalk
    \/ CreateMarkdown
    \/ WriteOutput

SpecMarkdown == InitMarkdown /\ [][NextMarkdown]_vars


(***************************************************************************)
(* Claims about fix_quotes.py                                              *)
(***************************************************************************)
QuoteChars == {DQ} \cup SmartDouble \cup SmartSingle

\* C6: normalize_text is idempotent (applying it to its own result changes
\* nothing), and a text holding no ASCII double quote and no smart-quote code
\* point is returned unchanged.
C6_NormalizeIdempotent ==
    /\ n_pc = "twice" => n_twice = n_once
    /\ (n_pc # "start" /\ Range(n_text) \cap QuoteChars = {}) => n_once = n_text

\* C6 witness: a text with a smart-quoted span and a stray quote has been
\* rewritten by the first application and the second application has run.
C6_Witness ==
    /\ n_pc = "twice"
    /\ n_text = <<"u201C", "x", "u201D", DQ>>
    /\ n_once = <<GRAVE, GRAVE, "x", APOS, APOS, DQ>>

\* C5: whenever a file holds content other than what it held before the run,
\* its backup holds the content it held before the run; a file whose
\* normalized text equals its content is never written, gets no backup, and
\* process_file returns False for it.
C5_BackupBeforeOverwrite ==
    \A f \in TexFiles :
        /\ fs[f] # orig[f] => bak[f] = orig[f]
        /\ normalize_text(orig[f]) = orig[f] =>
               /\ fs[f] = orig[f]
               /\ bak[f] = NoFile
               /\ result[f] \in {"none", "False", "raised"}

\* C5 witness: one file was rewritten with its backup in place, and the other
\* file, already normalized, was processed and left alone.
C5_Witness ==
    /\ pc = "done"
    /\ orig["a.tex"] = <<DQ, DQ>> /\ fs["a.tex"] = <<GRAVE, GRAVE, APOS, APOS>>
    /\ bak["a.tex"] = <<DQ, DQ>>
    /\ orig["b.tex"] = <<"x", DQ>> /\ result["b.tex"] = "False"
    /\ bak["b.tex"] = NoFile

\* C7: an error raised while one file is processed does not end the run: the
\* loop always has a next step until the summary is printed, and when the run
\* is done the summary has been printed, every .tex file has been processed,
\* and every file whose processing raised is logged and not listed as modified.
C7_ErrorsDoNotAbort ==
    /\ pc # "done" => ENABLED FixNext
    /\ pc = "done" =>
          /\ summary \in {"Modified files:", "No changes made."}
          /\ \A f \in TexFiles : result[f] # "none"
          /\ \A f \in TexFiles : result[f] = "raised" =>
                 f \in Range(errors) /\ f \notin Range(modified)
          /\ summary = "Modified files:" <=> modified # <<>>

\* C7 witness: the overwrite of the first file failed, the second file was
\* still processed and modified, and the summary was printed.
C7_Witness ==
    /\ pc = "done"
    /\ errors = <<"a.tex">>
    /\ modified = <<"b.tex">>
    /\ summary = "Modified files:"


(***************************************************************************)
(* Claims about generate_repo_markdown.py: classifier and ignore filters   *)
(***************************************************************************)
\* C9: detect_binary is false for the empty buffer, true for every buffer
\* holding a null byte, and otherwise true exactly when the bytes with codes
\* 7, 8, 9, 10, 12, 13, 27 or 0x20..0x7E number strictly less than 70% of
\* the buffer (count * 10 < 7 * length); exactly 70% is not binary.
C9_DetectBinary ==
    b_pc = "done" =>
        LET count == Cardinality({i \in DOMAIN data :
                         \/ data[i] \in {7, 8, 9, 10, 12, 13, 27}
                         \/ (data[i] >= 32 /\ data[i] <= 126)})
        IN  /\ data = <<>> => ~is_binary
            /\ (\E i \in DOMAIN data : data[i] = 0) => is_binary
            /\ (data # <<>> /\ \A i \in DOMAIN data : data[i] # 0) =>
                   (is_binary <=> count * 10 < 7 * Len(data))

\* C9 witness: seven printable bytes followed by three DEL bytes (exactly 70%
\* printable) were classified as not binary.
C9_Witness ==
    /\ b_pc = "done"
    /\ data = <<126, 126, 126, 126, 126, 126, 126, 127, 127, 127>>
    /\ ~is_binary

\* the rule of a pattern's shape, as the claim words it
PatternMatches(rel, pat) ==
    IF pat # <<>> /\ pat[Len(pat)] = "/"
    THEN LET foo == SubSeq(pat, 1, Len(pat) - 1)
         IN  rel = foo \/ (Len(rel) >= Len(pat) /\ SubSeq(rel, 1, Len(pat)) = pat)
    ELSE IF \E i \in DOMAIN pat : pat[i] = "*" \/ pat[i] = "?"
    THEN fnmatch(rel, pat) \/ fnmatch(name(rel), pat)
    ELSE rel = pat \/ name(rel) = pat

Orderings(s) ==
    {[i \in DOMAIN s |-> s[f[i]]] :
        f \in {g \in [DOMAIN s -> DOMAIN s] : \A i, j \in DOMAIN s : i # j => g[i] # g[j]}}

\* C8: path_matches_gitignore is true exactly when some pattern of the list
\* matches under the rule of its shape (directory, glob, literal), and the
\* result is the same for every order of the patterns.
C8_MatcherByShape ==
    i_pc # "start" =>
        /\ i_match <=> \E i \in DOMAIN i_patterns : PatternMatches(i_rel, i_patterns[i])
        /\ \A ps \in Orderings(i_patterns) : path_matches_gitignore(i_rel, ps) = i_match

\* C8 witness: with the patterns src, build/ the path build/out.o matched (by
\* the second pattern, a directory pattern).
C8_Witness ==
    /\ i_pc = "done"
    /\ i_patterns = <<SRC, BUILD \o SLASH>>
    /\ i_rel = BUILD \o SLASH \o OUT_O
    /\ i_match

\* C3: the fallback walk excludes a file exactly when path_matches_gitignore
\* is true for its root-relative path and the same pattern list.
C3_WalkSameAsMatcher ==
    i_pc = "done" => (i_skip <=> i_match)

(***************************************************************************)
(* Claims about generate_repo_markdown.py: the document                    *)
(***************************************************************************)
\* reading a rendered tree line back: where its connector starts, its depth,
\* its name, and whether it is drawn with the last-entry connector
ConnectorAt(line) ==
    CHOOSE i \in DOMAIN line :
        /\ line[i] \in {"u2514", "u251C"}
        /\ \A j \in 1..(i - 1) : line[j] \notin {"u2514", "u251C"}

LineDepth(line) == (ConnectorAt(line) - 1) \div 4

LineName(line) == SubSeq(line, ConnectorAt(line) + 4, Len(line))

DrawnLast(line) == line[ConnectorAt(line)] = "u2514"

\* the lines under the "." line
Rendered == IF markdown.tree_lines = <<>> THEN <<>> ELSE Tail(markdown.tree_lines)

\* a line with deeper lines right under it is a directory
IsDirLine(lines, i) == i < Len(lines) /\ LineDepth(lines[i + 1]) > LineDepth(lines[i])

\* two lines of the same level of the same directory
Siblings(lines, i, j) ==
    /\ i < j
    /\ LineDepth(lines[i]) = LineDepth(lines[j])
    /\ \A k \in i..j : LineDepth(lines[k]) >= LineDepth(lines[i])

RECURSIVE LinePath(_, _)
LinePath(lines, i) ==
    IF LineDepth(lines[i]) = 0 THEN LineName(lines[i])
    ELSE LET up == CHOOSE j \in 1..(i - 1) :
                       /\ LineDepth(lines[j]) = LineDepth(lines[i]) - 1
                       /\ \A k \in (j + 1)..(i - 1) : LineDepth(lines[k]) >= LineDepth(lines[i])
         IN  LinePath(lines, up) \o <<"/">> \o LineName(lines[i])

\* the tree's file entries, each as its root-relative path
FileLines(lines) == {i \in DOMAIN lines : ~IsDirLine(lines, i)}

SectionsOf(p) == {k \in DOMAIN markdown.sections : markdown.sections[k].heading = p}

\* C1: the document has no content subsection and no tree entry for the
\* output file, on the first run and on later runs, where discovery may
\* return the output file an earlier run wrote.
C1_OutputNeverEmbedded ==
    m_pc = "created" =>
        /\ SectionsOf(output_path) = {}
        /\ \A i \in FileLines(Rendered) : LinePath(Rendered, i) # output_path

\* C1 witness: on the second run discovery returned b/out.md, written by the
\* first run, next to b/x.txt, and the document was created.
C1_Witness ==
    /\ m_pc = "created"
    /\ run = 2
    /\ output_path = B_OUT_MD
    /\ files = <<B_OUT_MD, B_X_TXT>>
    /\ SectionsOf(B_X_TXT) # {}

\* C2: every path of the rendered tree has exactly one content subsection,
\* except the instructions file, which has none; and every content subsection
\* is for a path of the tree.
C2_TreeAndContentAgree ==
    m_pc = "created" =>
        /\ \A i \in FileLines(Rendered) :
               LET p == LinePath(Rendered, i)
               IN  IF p = CI THEN SectionsOf(p) = {} ELSE Cardinality(SectionsOf(p)) = 1
        /\ \A k \in DOMAIN markdown.sections :
               \E i \in FileLines(Rendered) :
                   LinePath(Rendered, i) = markdown.sections[k].heading

\* the language tag the claim gives a file: what follows the last "." of its
\* name, "text" when its name has no "."
TagOfName(nm) ==
    LET dots == {i \in DOMAIN nm : nm[i] = "."}
    IN  IF dots = {} THEN <<"t", "e", "x", "t">>
        ELSE SubSeq(nm, (CHOOSE i \in dots : \A j \in dots : j <= i) + 1, Len(nm))

\* C4: the language tag of every content subsection is derived from the
\* file's name (its last path segment) alone.
C4_FenceFromFileName ==
    m_pc = "created" =>
        \A k \in DOMAIN markdown.sections :
            markdown.sections[k].fence = TagOfName(name(markdown.sections[k].heading))

NoDuplicates(s) == \A i, j \in DOMAIN s : i # j => s[i] # s[j]

Reversed(s) == [i \in DOMAIN s |-> s[Len(s) + 1 - i]]

=============================================================================
